---- MODULE Spec2Model ----
(***************************************************************************)
(* Solar calculation engine (client/src/lib/solar-calculations.ts) and its *)
(* result cache (client/src/lib/calculation-cache.ts).                     *)
(*                                                                         *)
(* JavaScript values are records [t, n, s]: t is the kind, n the number of *)
(* a "num", s the text of a "str".  Numbers of the inputs are integers.    *)
(* An input object is the record of what reading each of the eight         *)
(* properties yields, with props, the names of its own properties in       *)
(* enumeration order.                                                      *)
(* In a result, paybackPeriod, roi25Year and co2OffsetAnnual are held in   *)
(* tenths (6.7 years is 67); the other numeric fields are whole units.     *)
(* The arithmetic is exact: every quantity is a rational whose numerator   *)
(* is carried as a multi-limb natural, so no product is truncated.         *)
(* The code computes in IEEE-754 doubles; where the exact value of a       *)
(* rounded field lies on a half (100 kW, Tracker System, High Efficiency:  *)
(* federalIncentives 90562.5) the double falls just below it and           *)
(* Math.round yields one unit less than here.  Both are deterministic      *)
(* functions of the inputs, which is all the cache properties rely on.     *)
(***************************************************************************)
EXTENDS Integers, Sequences, FiniteSets, TLC

VARIABLES cache, now, ticks, calls, last, callers, leads, response

vars == <<cache, now, ticks, calls, last, callers, leads, response>>

(***************************************************************************)
(* JavaScript values                                                       *)
(***************************************************************************)
Undefined == [t |-> "undefined", n |-> 0, s |-> ""]
Null == [t |-> "null", n |-> 0, s |-> ""]
NaN == [t |-> "nan", n |-> 0, s |-> ""]
Infinity == [t |-> "inf", n |-> 0, s |-> ""]
FunctionValue == [t |-> "function", n |-> 0, s |-> ""]
\* A finite number so large (1e306) that its product with a cost per kW or
\* with the peak sun hours of a year is above Number.MAX_VALUE.
Huge == [t |-> "huge", n |-> 0, s |-> ""]
Num(k) == [t |-> "num", n |-> k, s |-> ""]
Str(x) == [t |-> "str", n |-> 0, s |-> x]

\* !v : undefined, null, NaN, 0 and "" are falsy.
Falsy(v) ==
    \/ v.t \in {"undefined", "null", "nan"}
    \/ v.t = "num" /\ v.n = 0
    \/ v.t = "str" /\ v.s = ""

\* v <= 0 : ToNumber(undefined) is NaN and every comparison with NaN is
\* false; ToNumber(null) is 0.
LessEqZero(v) ==
    \/ v.t = "null"
    \/ v.t = "num" /\ v.n <= 0

\* ToNumber(v) of a value that passed v <= 0 = false, as a kind:
\* "fin" (v.n), "inf" or "nan".
NumKind(v) ==
    IF v.t = "num" THEN "fin" ELSE IF v.t = "inf" THEN "inf" ELSE "nan"

(***************************************************************************)
(* Multi-limb naturals: little-endian sequences of NLimbs limbs, base BASE *)
(***************************************************************************)
BigZero == <<0, 0, 0, 0, 0, 0>>
NLimbs == Len(BigZero)
BASE == 10 ^ 4
QTop == 2 ^ 16

RECURSIVE Carry(_, _, _)
Carry(a, i, c) ==
    IF i > NLimbs THEN <<>>
    ELSE LET t == a[i] + c IN <<t % BASE>> \o Carry(a, i + 1, t \div BASE)

BigFromInt(k) == Carry([i \in 1..NLimbs |-> IF i = 1 THEN k ELSE 0], 1, 0)
BigMulSmall(a, m) == Carry([i \in 1..NLimbs |-> a[i] * m], 1, 0)
BigAdd(a, b) == Carry([i \in 1..NLimbs |-> a[i] + b[i]], 1, 0)
BigToInt(a) == a[1] + BASE * a[2] + BASE * BASE * a[3]

RECURSIVE BigLeqFrom(_, _, _)
BigLeqFrom(a, b, i) ==
    IF i = 0 THEN TRUE
    ELSE IF a[i] < b[i] THEN TRUE
    ELSE IF a[i] > b[i] THEN FALSE
    ELSE BigLeqFrom(a, b, i - 1)

BigLeq(a, b) == BigLeqFrom(a, b, NLimbs)

\* floor(a / d) for a small divisor d, by long division from the top limb.
RECURSIVE BigDivFrom(_, _, _, _)
BigDivFrom(a, d, i, rem) ==
    IF i = 0 THEN <<>>
    ELSE LET t == rem * BASE + a[i]
         IN  BigDivFrom(a, d, i - 1, t % d) \o <<t \div d>>

BigDivSmall(a, d) == BigDivFrom(a, d, NLimbs, 0)

\* floor(x / y) for multi-limb x and y > 0, the quotient below 2 * QTop:
\* binary search for the largest q with q * y <= x.
RECURSIVE BigQuotFrom(_, _, _, _)
BigQuotFrom(x, y, bit, acc) ==
    IF bit = 0 THEN acc
    ELSE LET q == acc + bit
         IN  IF BigLeq(BigMulSmall(y, q), x)
             THEN BigQuotFrom(x, y, bit \div 2, q)
             ELSE BigQuotFrom(x, y, bit \div 2, acc)

BigQuot(x, y) == BigQuotFrom(x, y, QTop, 0)

\* Math.round(x / y) = floor((2x + y) / 2y), for x >= 0 and y > 0.
BigRoundQuot(x, y) == BigQuot(BigAdd(BigMulSmall(x, 2), y), BigMulSmall(y, 2))

\* Math.round(x / 10^7) = floor((2x + 10^7) / (2 * 10^7)).
BigRoundDivE7(x) ==
    BigToInt(BigDivSmall(BigDivSmall(
        BigAdd(BigMulSmall(x, 2), BigFromInt(10 ^ 7)), 2 * 10 ^ 4), 10 ^ 3))

\* Math.round(x / 10^11) = floor((2x + 10^11) / (2 * 10^11)).
BigRoundDivE11(x) ==
    BigToInt(BigDivSmall(BigDivSmall(BigDivSmall(
        BigAdd(BigMulSmall(x, 2), BigMulSmall(BigFromInt(10 ^ 7), 10 ^ 4)),
        2 * 10 ^ 4), 10 ^ 4), 10 ^ 3))

\* x * 10^9
BigMulE9(x) == BigMulSmall(BigMulSmall(x, 10 ^ 5), 10 ^ 4)

(***************************************************************************)
(* Constant tables of the engine                                           *)
(***************************************************************************)
\* BC_SOLAR_IRRADIANCE, in tenths of kWh/m2/day.
BC_SOLAR_IRRADIANCE ==
    [k \in {"vancouver", "victoria", "kelowna", "kamloops", "prince_george", "default"} |->
        CASE k = "vancouver" -> 32
          [] k = "victoria" -> 35
          [] k = "kelowna" -> 38
          [] k = "kamloops" -> 36
          [] k = "prince_george" -> 31
          [] k = "default" -> 33]

\* BC_COMMERCIAL_RATES, in 1/10000 CAD per kWh.
BC_COMMERCIAL_RATES ==
    [k \in {"Small General Service", "Medium General Service",
            "Large General Service", "Transmission Service"} |->
        CASE k = "Small General Service" -> 1139
          [] k = "Medium General Service" -> 1059
          [] k = "Large General Service" -> 879
          [] k = "Transmission Service" -> 759]

\* Both tables are object literals: a key that is not an own property is
\* looked up on Object.prototype, whose members are functions.
ObjectPrototypeKeys ==
    {"constructor", "toString", "valueOf", "hasOwnProperty",
     "isPrototypeOf", "propertyIsEnumerable", "toLocaleString"}

\* table[key] of an object literal.
Lookup(table, key) ==
    IF key \in DOMAIN table THEN Num(table[key])
    ELSE IF key \in ObjectPrototypeKeys THEN FunctionValue
    ELSE Undefined

\* a || b
OrElse(a, b) == IF Falsy(a) THEN b ELSE a

\* String.prototype.toLowerCase on the strings of the model.
ToLowerCase(x) ==
    CASE x = "Vancouver" -> "vancouver"
      [] x = "VANCOUVER" -> "vancouver"
      [] x = "Kelowna" -> "kelowna"
      [] x = "Victoria" -> "victoria"
      [] x = "Prince George" -> "prince george"
      [] x = "Whistler" -> "whistler"
      [] x = "Default" -> "default"
      [] x = "toString" -> "tostring"
      [] OTHER -> x

(***************************************************************************)
(* calculateCommercialSolar without the cache: validation and formulas     *)
(***************************************************************************)
Fields ==
    {"systemSize", "monthlyUsage", "currentBill", "rateTier",
     "installationType", "panelQuality", "batteryStorage", "location"}

\* typeof inputs: "object" for an object and for null, else "undefined",
\* "number", ...; a null or undefined input has no properties to read.
IsNullish(inputs) == inputs.is \in {"null", "undefined"}

\* location?.toLowerCase() || 'default'
LocationKey(location) ==
    IF location.t = "str" THEN OrElse(Str(ToLowerCase(location.s)), Str("default")).s
    ELSE "default"

\* BC_SOLAR_IRRADIANCE[locationKey] || BC_SOLAR_IRRADIANCE.default
Irradiance(location) ==
    OrElse(Lookup(BC_SOLAR_IRRADIANCE, LocationKey(location)),
           Num(BC_SOLAR_IRRADIANCE["default"]))

\* BC_COMMERCIAL_RATES[rateTier] || BC_COMMERCIAL_RATES["Medium General Service"]
EnergyRate(rateTier) ==
    OrElse(IF rateTier.t = "str" THEN Lookup(BC_COMMERCIAL_RATES, rateTier.s) ELSE Undefined,
           Num(BC_COMMERCIAL_RATES["Medium General Service"]))

\* The two switches on systemEfficiency, as percentages.
PanelEfficiencyPct(panelQuality) ==
    IF panelQuality = Str("High Efficiency") THEN 110
    ELSE IF panelQuality = Str("Premium Tier 1") THEN 115
    ELSE 100

InstallEfficiencyPct(installationType) ==
    IF installationType = Str("Ground-Mount") THEN 105
    ELSE IF installationType = Str("Tracker System") THEN 125
    ELSE 100

\* The two switches on baseCostPerKw, as percentages.
InstallCostPct(installationType) ==
    IF installationType = Str("Ground-Mount") THEN 110
    ELSE IF installationType = Str("Carport/Canopy") THEN 130
    ELSE IF installationType = Str("Tracker System") THEN 150
    ELSE 100

PanelCostPct(panelQuality) ==
    IF panelQuality = Str("High Efficiency") THEN 115
    ELSE IF panelQuality = Str("Premium Tier 1") THEN 125
    ELSE 100

\* The switch on batteryStorage, in CAD.
BatteryCost(batteryStorage) ==
    IF batteryStorage = Str("50kWh Commercial Battery") THEN 75000
    ELSE IF batteryStorage = Str("100kWh Commercial Battery") THEN 140000
    ELSE IF batteryStorage = Str("200kWh+ Custom Solution") THEN 250000
    ELSE 0

Min(a, b) == IF a <= b THEN a ELSE b

\* CleanBcRebates, had the first tier ended below 100 kW (size < 100).
CleanBcRebatesBelow100(size) ==
    IF size >= 20 /\ size < 100 THEN Min(size * 500, 50000)
    ELSE IF size >= 100 THEN Min(size * 400, 125000)
    ELSE 0

\* CleanBcRebates, had the second tier paid its 400 per kW on the kW above
\* 100 only, on top of the 50000 of the first tier.
CleanBcRebatesMarginal(size) ==
    IF size >= 20 /\ size <= 100 THEN Min(size * 500, 50000)
    ELSE IF size > 100 THEN Min(50000 + (size - 100) * 400, 125000)
    ELSE 0

\* cleanBcRebates for a finite systemSize, in CAD.
CleanBcRebates(size) ==
    IF size >= 20 /\ size <= 100 THEN Min(size * 500, 50000)
    ELSE IF size > 100 THEN Min(size * 400, 125000)
    ELSE 0

\* cleanBcRebates of the server's calculateSolarSystem, for a finite
\* systemSize, in CAD.
ServerCleanBcRebates(size) ==
    IF size >= 20 /\ size <= 100 THEN Min(size * 500, 50000)
    ELSE IF size > 100 THEN Min(size * 400, 125000)
    ELSE 0

\* SystemEfficiencyE6, had the two adjustments been added instead of
\* multiplied (0.85 * (1 + 0.10 + 0.25)).
SystemEfficiencyAdditive(inputs) ==
    85 * 100 * (PanelEfficiencyPct(inputs.panelQuality)
                    + InstallEfficiencyPct(inputs.installationType) - 100)

\* systemEfficiency * 10^6 = 85 * panel pct * install pct.
SystemEfficiencyE6(inputs) ==
    85 * PanelEfficiencyPct(inputs.panelQuality)
       * InstallEfficiencyPct(inputs.installationType)

\* AnnualProductionE7, had the 0.85 derate of the base efficiency been left
\* out.
AnnualProductionNoDerate(inputs) ==
    BigMulSmall(BigMulSmall(BigMulSmall(
        BigFromInt(100 * PanelEfficiencyPct(inputs.panelQuality)
                       * InstallEfficiencyPct(inputs.installationType)), 365),
        Irradiance(inputs.location).n), inputs.systemSize.n)

\* annualProduction * 10^7 for a finite systemSize and a numeric irradiance:
\* systemSize * (irradiance * 365) * systemEfficiency.
AnnualProductionE7(inputs) ==
    BigMulSmall(BigMulSmall(BigMulSmall(
        BigFromInt(SystemEfficiencyE6(inputs)), 365),
        Irradiance(inputs.location).n), inputs.systemSize.n)

\* BaseCostPerKwCents, had the two cost adjustments been added instead of
\* multiplied (1 + 0.50 + 0.25).
BaseCostPerKwCentsAdditive(inputs) ==
    1750 * (InstallCostPct(inputs.installationType)
                + PanelCostPct(inputs.panelQuality) - 100)

\* baseCostPerKw in cents: 1750 * install pct * panel pct / 10^4 CAD is a
\* whole number of cents for every pair of percentages of the switches.
BaseCostPerKwCents(inputs) ==
    (1750 * InstallCostPct(inputs.installationType)
          * PanelCostPct(inputs.panelQuality)) \div 100

\* TotalCostCents, had the battery been added before the panel adjustment
\* and so been multiplied by it.
TotalCostBatteryAdjusted(inputs) ==
    inputs.systemSize.n * BaseCostPerKwCents(inputs)
        + BatteryCost(inputs.batteryStorage) * PanelCostPct(inputs.panelQuality)

\* totalCost in cents, for a finite systemSize.
TotalCostCents(inputs) ==
    inputs.systemSize.n * BaseCostPerKwCents(inputs)
        + 100 * BatteryCost(inputs.batteryStorage)

\* FederalIncentivesE3, had the credit been capped at 500000.
FederalIncentivesCapped(inputs) ==
    Min(3 * TotalCostCents(inputs), 500000 * 1000)

\* FederalIncentivesE3, had the 30 percent been taken after the rebate.
FederalIncentivesAfterRebate(inputs) ==
    3 * TotalCostCents(inputs) - 300 * CleanBcRebates(inputs.systemSize.n)

\* federalIncentives * 1000 = totalCost * 0.30.
FederalIncentivesE3(inputs) == 3 * TotalCostCents(inputs)

\* netCost * 1000 = totalCost - cleanBcRebates - federalIncentives.
NetCostE3(inputs) ==
    10 * TotalCostCents(inputs) - 1000 * CleanBcRebates(inputs.systemSize.n)
        - FederalIncentivesE3(inputs)

\* annualSavings * 10^11 = annualProduction * energyRate.
AnnualSavingsE11(inputs) ==
    BigMulSmall(AnnualProductionE7(inputs), EnergyRate(inputs.rateTier).n)

\* Math.round(k / d) for integers k and d > 0 (halves round up).
RoundDiv(k, d) == (k \div d) + (IF 2 * (k % d) >= d THEN 1 ELSE 0)

\* PaybackPeriodTenths, had the division been of the rounded netCost by the
\* rounded annualSavings.
PaybackOfRounded(inputs) ==
    BigRoundQuot(BigFromInt(10 * RoundDiv(NetCostE3(inputs), 1000)),
                 BigFromInt(BigRoundDivE11(AnnualSavingsE11(inputs))))

\* Math.round(paybackPeriod * 10) with paybackPeriod = netCost /
\* annualSavings, for finite operands.
PaybackPeriodTenths(inputs) ==
    BigRoundQuot(BigMulE9(BigFromInt(NetCostE3(inputs))), AnnualSavingsE11(inputs))

\* Math.round(roi25Year * 10) with roi25Year =
\* ((annualSavings * 25 - netCost) / netCost) * 100, for finite operands:
\* 1000 * (25 * annualSavings / netCost - 1).
Roi25YearTenths(inputs) ==
    BigRoundQuot(AnnualSavingsE11(inputs),
                 BigMulSmall(BigFromInt(NetCostE3(inputs)), 4000)) - 1000

ResultFields ==
    {"systemSize", "annualProduction", "totalCost", "cleanBcRebates",
     "federalIncentives", "netCost", "annualSavings", "paybackPeriod",
     "roi25Year", "co2OffsetAnnual"}

NoResult == [f \in ResultFields |-> Undefined]

Returned(r) == [kind |-> "result", error |-> "", result |-> r]
Thrown(msg) == [kind |-> "error", error |-> msg, result |-> NoResult]

\* A number of kind "fin" with value k, or Infinity, or NaN.
OfKind(kind, k) ==
    IF kind = "fin" THEN Num(k) ELSE IF kind = "inf" THEN Infinity ELSE NaN

\* Lines 87-198: the formula chain and the rounding of the ten fields, for
\* inputs that passed the validation.  netCost is positive whenever
\* systemSize is finite and positive (the rebate is at most 500 per kW, 70
\* percent of the cost at least 1225 per kW).
Formulas(inputs) ==
    LET \* systemSize * baseCostPerKw and systemSize * peakSunHours of a huge
        \* systemSize overflow to Infinity
        sizeK == IF inputs.systemSize = Huge THEN "inf" ELSE NumKind(inputs.systemSize)
        prodK == IF Irradiance(inputs.location).t = "num" THEN sizeK ELSE "nan"
        saveK == IF EnergyRate(inputs.rateTier).t = "num" THEN prodK ELSE "nan"
        \* Infinity - 125000 - Infinity is NaN
        netK == IF sizeK = "fin" THEN "fin" ELSE "nan"
        ratioK == IF netK = "fin" /\ saveK = "fin" THEN "fin" ELSE "nan"
    IN  [systemSize |-> inputs.systemSize,
         annualProduction |->
            OfKind(prodK, IF prodK = "fin"
                          THEN BigRoundDivE7(AnnualProductionE7(inputs)) ELSE 0),
         totalCost |->
            OfKind(sizeK, IF sizeK = "fin"
                          THEN RoundDiv(TotalCostCents(inputs), 100) ELSE 0),
         cleanBcRebates |->
            Num(IF sizeK = "fin" THEN CleanBcRebates(inputs.systemSize.n)
                ELSE IF sizeK = "inf" THEN 125000 ELSE 0),
         federalIncentives |->
            OfKind(sizeK, IF sizeK = "fin"
                          THEN RoundDiv(FederalIncentivesE3(inputs), 1000) ELSE 0),
         netCost |->
            OfKind(netK, IF netK = "fin" THEN RoundDiv(NetCostE3(inputs), 1000) ELSE 0),
         annualSavings |->
            OfKind(saveK, IF saveK = "fin"
                          THEN BigRoundDivE11(AnnualSavingsE11(inputs)) ELSE 0),
         paybackPeriod |->
            OfKind(ratioK, IF ratioK = "fin" THEN PaybackPeriodTenths(inputs) ELSE 0),
         roi25Year |->
            OfKind(ratioK, IF ratioK = "fin" THEN Roi25YearTenths(inputs) ELSE 0),
         co2OffsetAnnual |->
            OfKind(prodK, IF prodK = "fin"
                          THEN BigRoundDivE11(BigMulSmall(AnnualProductionE7(inputs), 42))
                          ELSE 0)]

InvalidInputMsg == "Invalid input data provided"
NotPositiveMsg == "System size, monthly usage, and current bill must be positive numbers"
NotSelectedMsg == "All configuration options must be selected"
TypeErrorMsg == "TypeError"

\* NotSelected, had it also rejected a value that is not one of the options
\* of the calculator form.
NotRecognized(inputs) ==
    \/ inputs.rateTier.t # "str" \/ inputs.rateTier.s = ""
    \/ inputs.installationType.t # "str"
    \/ inputs.installationType.s \notin
            {"Roof-Mount", "Ground-Mount", "Carport/Canopy", "Tracker System"}
    \/ inputs.panelQuality.t # "str"
    \/ inputs.panelQuality.s \notin
            {"Standard Efficiency", "High Efficiency", "Premium Tier 1"}
    \/ inputs.batteryStorage.t # "str"
    \/ inputs.batteryStorage.s \notin
            {"No Battery", "50kWh Commercial Battery", "100kWh Commercial Battery",
             "200kWh+ Custom Solution"}

\* Lines 62-85: the two validation throws on an object input.
NotPositive(inputs) ==
    \/ LessEqZero(inputs.systemSize)
    \/ LessEqZero(inputs.monthlyUsage)
    \/ LessEqZero(inputs.currentBill)

NotSelected(inputs) ==
    \/ Falsy(inputs.rateTier)
    \/ Falsy(inputs.installationType)
    \/ Falsy(inputs.panelQuality)
    \/ Falsy(inputs.batteryStorage)

\* Lines 62-203 without the two cache calls: what a call computes or throws
\* once the cache lookup has missed.
Engine(inputs) ==
    IF inputs.is # "object" THEN Thrown(InvalidInputMsg)
    ELSE IF NotPositive(inputs) THEN Thrown(NotPositiveMsg)
    ELSE IF NotSelected(inputs) THEN Thrown(NotSelectedMsg)
    \* location?.toLowerCase is not a function
    ELSE IF inputs.location.t \notin {"str", "undefined", "null"} THEN Thrown(TypeErrorMsg)
    ELSE Returned(Formulas(inputs))

(***************************************************************************)
(* CalculationCache                                                        *)
(***************************************************************************)
CACHE_DURATION == 5 * 60 * 1000
CLEANUP_SIZE == 100

CacheTypeErrorMsg == "TypeError: cannot read properties of null or undefined"

\* JSON.stringify of one member of the key object: a member whose value is
\* undefined (or a function) is left out, NaN and Infinity print as null.
JsonOf(v) ==
    IF v.t \in {"undefined", "function"} THEN Undefined
    ELSE IF v.t \in {"null", "nan", "inf"} THEN Null
    ELSE v

\* generateKey reads the eight properties of inputs, which throws a
\* TypeError when inputs is null or undefined.
KeyThrows(inputs) == IsNullish(inputs)

\* GenerateKey, had it printed the input object itself
\* (JSON.stringify(inputs)): the members in the order of the object's own
\* properties, the extra ones included.
GenerateKeyOfInputs(inputs) ==
    [f \in Fields \cup {"props"} |->
        IF f = "props" THEN inputs.props ELSE JsonOf(inputs[f])]

\* GenerateKey, had the object literal left out systemSize.
GenerateKeyNoSize(inputs) ==
    [f \in Fields |-> IF f = "systemSize" THEN Undefined ELSE JsonOf(inputs[f])]

\* GenerateKey, had the object literal held only the fields the formulas
\* read (monthlyUsage and currentBill left out).
GenerateKeyOfUsedFields(inputs) ==
    [f \in Fields |-> IF f \in {"monthlyUsage", "currentBill"} THEN Undefined
                      ELSE JsonOf(inputs[f])]

\* The key string, as the tuple of the eight printed members in the fixed
\* order of the object literal.
GenerateKey(inputs) == [f \in Fields |-> JsonOf(inputs[f])]

\* Expired, had the comparison been >=.
ExpiredAtDuration(entry, t) == t - entry.timestamp >= CACHE_DURATION

\* Date.now() - entry.timestamp > this.CACHE_DURATION
Expired(entry, t) == t - entry.timestamp > CACHE_DURATION

Without(c, key) == [k \in DOMAIN c \ {key} |-> c[k]]

With(c, key, entry) ==
    [k \in DOMAIN c \cup {key} |-> IF k = key THEN entry ELSE c[k]]

\* CacheGet, had a hit refreshed the timestamp of its entry.
CacheGetRefresh(c, t, inputs) ==
    LET key == GenerateKey(inputs)
    IN  IF key \notin DOMAIN c
        THEN [hit |-> FALSE, result |-> NoResult, cache |-> c]
        ELSE IF Expired(c[key], t)
        THEN [hit |-> FALSE, result |-> NoResult, cache |-> Without(c, key)]
        ELSE [hit |-> TRUE, result |-> c[key].result,
              cache |-> With(c, key, [result |-> c[key].result, timestamp |-> t])]

\* CacheGet, had it returned whatever entry the table holds, without the
\* test of its age.
CacheGetNoExpiry(c, t, inputs) ==
    LET key == GenerateKey(inputs)
    IN  IF key \notin DOMAIN c
        THEN [hit |-> FALSE, result |-> NoResult, cache |-> c]
        ELSE [hit |-> TRUE, result |-> c[key].result, cache |-> c]

\* CacheGet, had it returned null for a stale entry without deleting it.
CacheGetKeepStale(c, t, inputs) ==
    LET key == GenerateKey(inputs)
    IN  IF key \notin DOMAIN c \/ Expired(c[key], t)
        THEN [hit |-> FALSE, result |-> NoResult, cache |-> c]
        ELSE [hit |-> TRUE, result |-> c[key].result, cache |-> c]

\* get: the returned value (hit = FALSE stands for null) and the table
\* it leaves.
CacheGet(c, t, inputs) ==
    LET key == GenerateKey(inputs)
    IN  IF key \notin DOMAIN c
        THEN [hit |-> FALSE, result |-> NoResult, cache |-> c]
        ELSE IF Expired(c[key], t)
        THEN [hit |-> FALSE, result |-> NoResult, cache |-> Without(c, key)]
        ELSE [hit |-> TRUE, result |-> c[key].result, cache |-> c]

\* Whether get(inputs) deletes the entry of its key.
Evicts(c, t, inputs) ==
    /\ ~KeyThrows(inputs)
    /\ GenerateKey(inputs) \in DOMAIN c
    /\ GenerateKey(inputs) \notin DOMAIN CacheGet(c, t, inputs).cache

\* Cleanup, had the subtraction been the other way round
\* (entry.timestamp - now > CACHE_DURATION never holds).
CleanupReversed(c, t) ==
    [k \in {j \in DOMAIN c : ~(c[j].timestamp - t > CACHE_DURATION)} |-> c[k]]

\* Cleanup, had it compared the age with 0 instead of CACHE_DURATION.
CleanupOlder(c, t) ==
    [k \in {j \in DOMAIN c : ~(t - c[j].timestamp > 0)} |-> c[k]]

\* cleanup: delete every expired entry.
Cleanup(c, t) ==
    [k \in {j \in DOMAIN c : ~Expired(c[j], t)} |-> c[k]]

\* set: the table it leaves.
CacheSet(c, t, inputs, result) ==
    LET c1 == With(c, GenerateKey(inputs), [result |-> result, timestamp |-> t])
    IN  IF Cardinality(DOMAIN c1) > CLEANUP_SIZE THEN Cleanup(c1, t) ELSE c1

(***************************************************************************)
(* Inputs of the model                                                     *)
(***************************************************************************)
MaxCalls == 3
MaxTicks == 3

\* The properties of SolarCalculationInputs, in the order of the interface.
FieldOrder ==
    <<"systemSize", "monthlyUsage", "currentBill", "rateTier",
      "installationType", "panelQuality", "batteryStorage", "location">>

Obj(size, usage, bill, tier, install, panel, battery, loc) ==
    [is |-> "object", props |-> FieldOrder, systemSize |-> size, monthlyUsage |-> usage,
     currentBill |-> bill, rateTier |-> tier, installationType |-> install,
     panelQuality |-> panel, batteryStorage |-> battery, location |-> loc]

\* A null input, and a primitive (a number), which has none of the eight
\* properties.
NotObj(kind) ==
    [is |-> kind, props |-> <<>>, systemSize |-> Undefined, monthlyUsage |-> Undefined,
     currentBill |-> Undefined, rateTier |-> Undefined,
     installationType |-> Undefined, panelQuality |-> Undefined,
     batteryStorage |-> Undefined, location |-> Undefined]

Base ==
    Obj(Num(100), Num(5000), Num(1200), Str("Medium General Service"),
        Str("Roof-Mount"), Str("Standard Efficiency"), Str("No Battery"),
        Str("Whistler"))

\* The values of the select boxes of the calculator form.
RateTiers == DOMAIN BC_COMMERCIAL_RATES
InstallationTypes == {"Roof-Mount", "Ground-Mount", "Carport/Canopy", "Tracker System"}
PanelQualities == {"Standard Efficiency", "High Efficiency", "Premium Tier 1"}
BatteryOptions ==
    {"No Battery", "50kWh Commercial Battery", "100kWh Commercial Battery",
     "200kWh+ Custom Solution"}

Large ==
    [Base EXCEPT !.systemSize = Num(500), !.installationType = Str("Tracker System"),
                 !.panelQuality = Str("Premium Tier 1"),
                 !.batteryStorage = Str("200kWh+ Custom Solution"),
                 !.location = Str("Kelowna")]

Inputs ==
    {Base,
     Large,
     [Base EXCEPT !.systemSize = Undefined],
     [Base EXCEPT !.systemSize = NaN],
     [Base EXCEPT !.systemSize = Null],
     [Base EXCEPT !.currentBill = Num(0)],
     NotObj("null"),
     NotObj("number")}

\* The inputs of the direct calls of get.
GetInputs ==
    {Base,
     [Base EXCEPT !.systemSize = NaN],
     NotObj("null")}

TickSteps == {1, CACHE_DURATION - 1}

\* The inputs that fill the table past CLEANUP_SIZE: one key per system size.
MaxFill == 102
BatchSize == 50

FillInput(k) == [Base EXCEPT !.systemSize = Num(k)]
FillInputs == {FillInput(k) : k \in 1..(MaxFill + 1)}

\* The inputs of the calls on an empty table: every combination of the
\* three configuration options, of the two looked-up fields, and of the
\* three numeric fields, each with unrecognized, empty and missing values.
InstallValues == {Str(x) : x \in InstallationTypes \cup {"Floating", ""}}
PanelValues == {Str(x) : x \in PanelQualities \cup {"Monocrystalline", ""}}
BatteryValues == {Str(x) : x \in BatteryOptions \cup {"Lithium", ""}}
TierValues == {Str(x) : x \in RateTiers \cup {"Industrial", "constructor", "toString", ""}}
LocationValues ==
    {Str(x) : x \in {"Vancouver", "VANCOUVER", "Kelowna", "Prince George",
                     "prince_george", "Whistler", "Default", "constructor", ""}}
        \cup {Undefined, Null}
SizeValues == {Undefined, Null, NaN, Infinity, Huge, Num(0), Num(-5), Num(19), Num(100), Num(313)}
AmountValues == {Undefined, Null, NaN, Num(0), Num(1200)}
\* The system sizes the battery options are combined with, next to the 100
\* kW of Base.
BatterySizes == {1, 20}
\* System sizes on both sides of the two tier boundaries and of the two caps.
TierSizes == {1, 19, 20, 21, 99, 100, 101, 124, 125, 312, 313, 500}

WideInputs ==
    {[Base EXCEPT !.installationType = a, !.panelQuality = b, !.batteryStorage = c] :
        a \in InstallValues, b \in PanelValues, c \in BatteryValues}
    \cup {[Base EXCEPT !.rateTier = a, !.location = b] :
            a \in TierValues, b \in LocationValues}
    \cup {[Base EXCEPT !.systemSize = a, !.monthlyUsage = b, !.currentBill = c] :
            a \in SizeValues, b \in AmountValues, c \in AmountValues}
    \cup {[Base EXCEPT !.systemSize = Num(k)] : k \in TierSizes}
    \cup {[Base EXCEPT !.systemSize = Num(k), !.batteryStorage = b,
                       !.installationType = a] :
            k \in BatterySizes, b \in BatteryValues,
            a \in {Str("Ground-Mount"), Str("Carport/Canopy")}}
    \cup Inputs

\* The same object built with its properties in another order, and with a
\* property that is none of the eight (the form's businessName).
Reordered(inputs) ==
    [inputs EXCEPT !.props = [i \in 1..Len(@) |-> @[Len(@) + 1 - i]]]

WithExtra(inputs) == [inputs EXCEPT !.props = <<"businessName">> \o @]

OrderInputs ==
    {Base, Reordered(Base), WithExtra(Base), WithExtra(Reordered(Base)),
     Large, Reordered(Large)}

\* Inputs that differ in one field only: in monthlyUsage or currentBill, in
\* a systemSize that is not a finite number, or in an option left empty.
CollideInputs ==
    {Base,
     [Base EXCEPT !.monthlyUsage = Num(8000)],
     [Base EXCEPT !.currentBill = Num(2000)],
     [Base EXCEPT !.systemSize = NaN],
     [Base EXCEPT !.systemSize = Infinity],
     [Base EXCEPT !.systemSize = Null],
     [Base EXCEPT !.systemSize = Num(0)],
     [Base EXCEPT !.batteryStorage = Str("")]}

\* The engine is a pure function of its input: its outcomes on the inputs of
\* the model, computed once.
EngineTable ==
    [inputs \in WideInputs \cup FillInputs \cup OrderInputs \cup CollideInputs
        |-> Engine(inputs)]

\* calculateCommercialSolar: the outcome of the call and the table it
\* leaves.  An exception of get leaves the function before anything else.
CalculateCommercialSolar(c, t, inputs) ==
    IF KeyThrows(inputs)
    THEN [outcome |-> Thrown(CacheTypeErrorMsg), hit |-> FALSE, cache |-> c]
    ELSE LET got == CacheGet(c, t, inputs)
             out == EngineTable[inputs]
         IN  IF got.hit
             THEN [outcome |-> Returned(got.result), hit |-> TRUE, cache |-> got.cache]
             ELSE IF out.kind = "error"
             THEN [outcome |-> out, hit |-> FALSE, cache |-> got.cache]
             ELSE [outcome |-> out, hit |-> FALSE,
                   cache |-> CacheSet(got.cache, t, inputs, out.result)]

(***************************************************************************)
(* The state machine                                                       *)
(***************************************************************************)
\* The two callers of the interleaved calls, and a caller that has not
\* called yet.
Callers == 1..2

IdleCaller ==
    [pc |-> "idle", inputs |-> Base, outcome |-> Thrown(""), hit |-> FALSE, age |-> 0]

\* No request has been answered yet.  A response is kept with the request
\* it answers: the route, the body and what Gemini did on the two calls.
NoRequest == [route |-> "", body |-> "", analysis |-> "", qualification |-> ""]

NoResponse == [code |-> 0, message |-> "", leadScore |-> Undefined, request |-> NoRequest]

Init ==
    /\ cache = <<>>
    /\ now = 0
    /\ ticks = 0
    /\ calls = 0
    /\ last = [op |-> "init", inputs |-> Base, outcome |-> Thrown(""),
               hit |-> FALSE, evicted |-> FALSE]
    /\ callers = [c \in Callers |-> IdleCaller]
    /\ leads = <<>>
    /\ response = NoResponse

\* A caller invokes calculateCommercialSolar(inputs).
Call(inputs) ==
    /\ LET r == CalculateCommercialSolar(cache, now, inputs)
       IN  /\ cache' = r.cache
           /\ last' = [op |-> "calculate", inputs |-> inputs,
                       outcome |-> r.outcome, hit |-> r.hit,
                       evicted |-> Evicts(cache, now, inputs)]
    /\ UNCHANGED <<now, ticks, callers, leads, response>>

Calculate(inputs) ==
    /\ calls < MaxCalls
    /\ Call(inputs)
    /\ calls' = calls + 1

\* A caller invokes calculationCache.get(inputs) on the exported cache.
Get(inputs) ==
    /\ calls < MaxCalls
    /\ IF KeyThrows(inputs)
       THEN /\ cache' = cache
            /\ last' = [op |-> "get", inputs |-> inputs,
                        outcome |-> Thrown(CacheTypeErrorMsg), hit |-> FALSE,
                        evicted |-> FALSE]
       ELSE LET got == CacheGet(cache, now, inputs)
            IN  /\ cache' = got.cache
                /\ last' = [op |-> "get", inputs |-> inputs,
                            outcome |-> Returned(got.result), hit |-> got.hit,
                            evicted |-> Evicts(cache, now, inputs)]
    /\ calls' = calls + 1
    /\ UNCHANGED <<now, ticks, callers, leads, response>>

\* calculationCache.clear()
Clear ==
    /\ cache # <<>>
    /\ cache' = <<>>
    /\ last' = [op |-> "clear", inputs |-> Base, outcome |-> Thrown(""),
                hit |-> FALSE, evicted |-> FALSE]
    /\ UNCHANGED <<now, ticks, calls, callers, leads, response>>

\* Date.now() advances between two calls.
Tick(d) ==
    /\ ticks < MaxTicks
    /\ now' = now + d
    /\ ticks' = ticks + 1
    /\ UNCHANGED <<cache, calls, last, callers, leads, response>>

Next ==
    \/ \E inputs \in Inputs : Calculate(inputs)
    \/ \E inputs \in GetInputs : Get(inputs)
    \/ Clear
    \/ \E d \in TickSteps : Tick(d)

Spec == Init /\ [][Next]_vars

(***************************************************************************)
(* Filling the table: calls with pairwise distinct system sizes, the clock *)
(* advancing between batches of BatchSize calls, and repeated calls for    *)
(* the first key.                                                          *)
(***************************************************************************)
FillCalculate ==
    /\ calls < MaxFill
    /\ Call(FillInput(calls + 1))
    /\ calls' = calls + 1

FillRecalculate ==
    /\ calls > 0
    /\ calls % BatchSize = 0
    /\ last.inputs # FillInput(1)
    /\ Call(FillInput(1))
    /\ UNCHANGED calls

FillTick(d) ==
    /\ calls % BatchSize = 0
    /\ Tick(d)

NextFill ==
    \/ FillCalculate
    \/ FillRecalculate
    \/ \E d \in TickSteps : FillTick(d)

SpecFill == Init /\ [][NextFill]_vars

(***************************************************************************)
(* Calls on an empty table, over the wide set of inputs.                   *)
(***************************************************************************)
WideCall(inputs) ==
    /\ cache = <<>>
    /\ Call(inputs)
    /\ UNCHANGED calls

NextWide ==
    \/ \E inputs \in WideInputs : WideCall(inputs)
    \/ Clear

SpecWide == Init /\ [][NextWide]_vars

(***************************************************************************)
(* Calls on the table with the inputs of OrderInputs: objects that differ  *)
(* in the order of their properties or by an extra property.               *)
(***************************************************************************)
\* Large is computed, and so stored, only with its properties in the order
\* of the interface.
NextOrder ==
    \/ \E inputs \in OrderInputs \ {Reordered(Large)} : Calculate(inputs)
    \/ \E inputs \in OrderInputs : Get(inputs)
    \/ Clear
    \/ \E d \in TickSteps : Tick(d)

SpecOrder == Init /\ [][NextOrder]_vars

(***************************************************************************)
(* Calls on the table with the inputs of CollideInputs.                    *)
(***************************************************************************)
NextCollide ==
    \/ \E inputs \in CollideInputs : Calculate(inputs)
    \/ Clear
    \/ \E d \in TickSteps : Tick(d)

SpecCollide == Init /\ [][NextCollide]_vars

(***************************************************************************)
(* Two callers of calculateCommercialSolar whose three stages (the lookup, *)
(* the computation, the store) interleave.  The function is synchronous,   *)
(* so the runs where each caller takes its three steps in a row are the    *)
(* ones a single JavaScript thread produces; the others are the race the   *)
(* specification describes.                                                *)
(***************************************************************************)
RaceInputs == {Base, Large, [Base EXCEPT !.currentBill = Num(0)]}

\* Lines 57-60: the lookup; a hit returns the cached result.
RaceGet(c, inputs) ==
    /\ callers[c].pc \in {"idle", "done"}
    /\ calls < MaxCalls
    /\ LET got == CacheGet(cache, now, inputs)
       IN  /\ cache' = got.cache
           /\ callers' = [callers EXCEPT ![c] =
                    IF got.hit
                    THEN [pc |-> "done", inputs |-> inputs,
                          outcome |-> Returned(got.result), hit |-> TRUE,
                          age |-> now - cache[GenerateKey(inputs)].timestamp]
                    ELSE [pc |-> "missed", inputs |-> inputs,
                          outcome |-> Thrown(""), hit |-> FALSE, age |-> 0]]
    /\ calls' = calls + 1
    /\ UNCHANGED <<now, ticks, last, leads, response>>

\* Lines 62-198: the validation and the formulas; a throw leaves the call.
RaceCompute(c) ==
    /\ callers[c].pc = "missed"
    /\ LET out == EngineTable[callers[c].inputs]
       IN  callers' = [callers EXCEPT
                ![c].pc = IF out.kind = "error" THEN "done" ELSE "computed",
                ![c].outcome = out]
    /\ UNCHANGED <<cache, now, ticks, calls, last, leads, response>>

\* Lines 200-203: the store and the return.
RaceSet(c) ==
    /\ callers[c].pc = "computed"
    /\ cache' = CacheSet(cache, now, callers[c].inputs, callers[c].outcome.result)
    /\ callers' = [callers EXCEPT ![c].pc = "done"]
    /\ UNCHANGED <<now, ticks, calls, last, leads, response>>

NextRace ==
    \/ \E c \in Callers, inputs \in RaceInputs : RaceGet(c, inputs)
    \/ \E c \in Callers : RaceCompute(c)
    \/ \E c \in Callers : RaceSet(c)
    \/ \E d \in TickSteps : Tick(d)

SpecRace == Init /\ [][NextRace]_vars

(***************************************************************************)
(* The lead routes of the server (server/routes.ts), the two Gemini calls  *)
(* they make (server/gemini.ts) and the leads table of DatabaseStorage.    *)
(* leads is the table: the sequence of its rows, the serial id of a row    *)
(* being its index.                                                        *)
(***************************************************************************)
MaxLeads == 2

\* The statuses the schema lists for leads.status, in their order.
LeadStatuses == <<"new", "contacted", "qualified", "quoted", "closed">>

\* A request body that insertLeadSchema.parse accepts, by the five fields
\* the scoring reads.
LeadBody(bill, roof, timeframe, goal, type) ==
    [valid |-> TRUE, monthlyElectricityBill |-> bill, roofArea |-> roof,
     timeframe |-> timeframe, primaryGoal |-> goal, businessType |-> type]

\* A body that insertLeadSchema.parse rejects with a ZodError.
InvalidBody == [LeadBody(0, 0, "", "", "") EXCEPT !.valid = FALSE]

LeadBodies ==
    {LeadBody(800, 4000, "6-12 months", "Sustainability", "Retail"),
     LeadBody(1500, 10000, "3-6 months", "Energy independence", "Office"),
     LeadBody(2500, 20000, "Within 3 months", "Cost savings", "Manufacturing"),
     InvalidBody}

\* What Gemini does on one generateContent call: it fails (no API key, an
\* exception, an empty text), or its text parses to null, or to an object;
\* the object of the qualification carries a score.
AiScores == {0, 85, 150}
AnalysisReplies == {"fails", "null", "object"}
QualificationReplies ==
    {[kind |-> k, score |-> Undefined] : k \in {"fails", "null"}}
        \cup {[kind |-> "object", score |-> Num(k)] : k \in AiScores}

\* analyzeBusinessForSolar: null for a text that parses to null, else an
\* object (the parsed one, or the fallback analysis of the catch block).
AnalyzeBusinessForSolar(body, reply) ==
    IF reply = "null" THEN Null ELSE FunctionValue

\* qualifyLead: the score of the qualification it returns, Null for a text
\* that parses to null; the catch block computes a basic score.
QualifyLead(body, reply) ==
    IF reply.kind = "object" THEN reply.score
    ELSE IF reply.kind = "null" THEN Null
    ELSE Num(Min(50 + (IF body.monthlyElectricityBill > 2000 THEN 20 ELSE 0)
                    + (IF body.roofArea > 10000 THEN 15 ELSE 0)
                    + (IF body.timeframe = "Within 3 months" THEN 15 ELSE 0), 100))

\* The fallback scoring criteria of the route.
RuleBasedScore(body) ==
    Min(50 + (IF body.monthlyElectricityBill > 1000 THEN 20 ELSE 0)
           + (IF body.monthlyElectricityBill > 2000 THEN 10 ELSE 0)
           + (IF body.roofArea > 10000 THEN 15 ELSE 0)
           + (IF body.timeframe = "Within 3 months" THEN 20 ELSE 0)
           + (IF body.timeframe = "3-6 months" THEN 10 ELSE 0)
           + (IF body.primaryGoal = "Cost savings" THEN 15 ELSE 0)
           + (IF body.businessType \in {"Manufacturing", "Warehouse"} THEN 10 ELSE 0),
        100)

\* finalLeadScore: the try block throws a TypeError in its console.log when
\* either awaited value is null, and the catch sets both to null.
FinalLeadScore(body, analysisReply, qualificationReply) ==
    LET businessAnalysis == AnalyzeBusinessForSolar(body, analysisReply)
        leadQualification == QualifyLead(body, qualificationReply)
    IN  IF businessAnalysis = Null \/ leadQualification = Null
        THEN Num(RuleBasedScore(body))
        ELSE leadQualification

\* DatabaseStorage.createLead: insert the row, the id is the next serial.
CreateLead(table, row) == Append(table, row)

\* DatabaseStorage.updateLeadStatus: UPDATE leads SET status WHERE id.
UpdateLeadStatus(table, id, status) ==
    [i \in DOMAIN table |->
        IF i = id THEN [table[i] EXCEPT !.status = status] ELSE table[i]]

\* POST /api/leads
PostLead(body, analysisReply, qualificationReply) ==
    /\ Len(leads) < MaxLeads
    /\ IF ~body.valid
       THEN /\ response' = [code |-> 400, message |-> "Invalid lead data",
                            leadScore |-> Undefined,
                            request |-> [route |-> "POST /api/leads", body |-> body,
                                         analysis |-> "", qualification |-> ""]]
            /\ leads' = leads
       ELSE LET finalLeadScore == FinalLeadScore(body, analysisReply, qualificationReply)
            IN  /\ leads' = CreateLead(leads, [leadScore |-> finalLeadScore,
                                              status |-> "new"])
                /\ response' = [code |-> 200, message |-> "Lead submitted successfully",
                                leadScore |-> finalLeadScore,
                                request |-> [route |-> "POST /api/leads", body |-> body,
                                             analysis |-> analysisReply,
                                             qualification |-> qualificationReply.kind]]
    /\ UNCHANGED <<cache, now, ticks, calls, last, callers>>

\* PATCH /api/leads/:id/status
PatchStatuses == {"new", "contacted", "closed", "archived"}

PatchLeadStatus(id, status) ==
    /\ leads' = UpdateLeadStatus(leads, id, status)
    /\ response' = [code |-> 200, message |-> "Lead status updated successfully",
                    leadScore |-> Undefined,
                    request |-> [NoRequest EXCEPT !.route = "PATCH /api/leads/:id/status"]]
    /\ UNCHANGED <<cache, now, ticks, calls, last, callers>>

NextLeads ==
    \/ \E body \in LeadBodies, a \in AnalysisReplies, q \in QualificationReplies :
            PostLead(body, a, q)
    \/ \E id \in 1..(MaxLeads + 1), status \in PatchStatuses :
            PatchLeadStatus(id, status)

SpecLeads == Init /\ [][NextLeads]_vars

(***************************************************************************)
(* Properties                                                              *)
(***************************************************************************)
\* A step that is a call of get or of calculateCommercialSolar: the clock
\* stands still and the call is recorded in last.
CallStep == now' = now /\ last'.op \in {"get", "calculate"}
CalculateStep == now' = now /\ last'.op = "calculate"

\* The data model of a well-formed input: positive numbers, options of the
\* calculator form, a free-form or missing location.
PositiveNumber(v) == v.t = "num" /\ v.n > 0

ValidInput(inputs) ==
    /\ inputs.is = "object"
    /\ PositiveNumber(inputs.systemSize)
    /\ PositiveNumber(inputs.monthlyUsage)
    /\ PositiveNumber(inputs.currentBill)
    /\ inputs.rateTier.t = "str" /\ inputs.rateTier.s \in RateTiers
    /\ inputs.installationType.t = "str" /\ inputs.installationType.s \in InstallationTypes
    /\ inputs.panelQuality.t = "str" /\ inputs.panelQuality.s \in PanelQualities
    /\ inputs.batteryStorage.t = "str" /\ inputs.batteryStorage.s \in BatteryOptions
    /\ inputs.location.t \in {"str", "undefined"}

\* C1: after any sequence of calls, clears and clock advances, a call of
\* calculateCommercialSolar with a valid input returns exactly what the
\* uncached validation and formula chain yield for that input (so two calls
\* with equal inputs return equal results whatever the cache holds).
C1_CacheTransparent ==
    (last.op = "calculate" /\ ValidInput(last.inputs))
        => last.outcome = EngineTable[last.inputs]

\* C1 witness: a valid input answered from the cache.
C1_ValidInputHit ==
    last.op = "calculate" /\ last.hit /\ ValidInput(last.inputs)

\* C2 as stated: a lookup of an entry inserted at time T is a hit exactly
\* when it happens before T + 5 minutes, so a miss at exactly T + 300000 ms.
C2_MissAtFiveMinutes ==
    [][(CallStep /\ ~KeyThrows(last'.inputs)
            /\ GenerateKey(last'.inputs) \in DOMAIN cache)
        => (last'.hit <=>
                now - cache[GenerateKey(last'.inputs)].timestamp < 5 * 60 * 1000)]_vars

\* C2 amended: a lookup of an entry inserted at time T is a hit at every
\* time up to and including T + 300000 ms and a miss at every later time.
C2_HitThroughFiveMinutes ==
    [][(CallStep /\ ~KeyThrows(last'.inputs)
            /\ GenerateKey(last'.inputs) \in DOMAIN cache)
        => (last'.hit <=>
                now - cache[GenerateKey(last'.inputs)].timestamp <= 5 * 60 * 1000)]_vars

\* C2 witness: a hit exactly 300000 ms after the insertion.
C2_HitAtFiveMinutes ==
    /\ last.op \in {"get", "calculate"}
    /\ last.hit
    /\ GenerateKey(last.inputs) \in DOMAIN cache
    /\ now - cache[GenerateKey(last.inputs)].timestamp = 5 * 60 * 1000

\* C3: a get on an expired entry misses and removes exactly that entry; a
\* get that hits, or misses for want of an entry, leaves the table as it
\* was; no get changes the entry of another key.
C3_GetFrame ==
    [][(now' = now /\ last'.op = "get" /\ ~KeyThrows(last'.inputs))
        => LET key == GenerateKey(last'.inputs)
               stale == /\ key \in DOMAIN cache
                        /\ now - cache[key].timestamp > 5 * 60 * 1000
           IN  /\ stale => (~last'.hit /\ DOMAIN cache' = DOMAIN cache \ {key})
               /\ ~stale => cache' = cache
               /\ \A k \in DOMAIN cache \ {key} :
                    k \in DOMAIN cache' /\ cache'[k] = cache[k]]_vars

\* C3 witness: a get has just deleted a stale entry and another entry stays.
C3_StaleEntryRemoved ==
    last.op = "get" /\ last.evicted /\ ~last.hit /\ cache # <<>>

\* C4: right after a set that makes the table exceed 100 entries, the table
\* holds no expired entry.
C4_NoExpiredAfterOverflow ==
    [][(CalculateStep /\ ~last'.hit /\ last'.outcome.kind = "result"
            /\ Cardinality(DOMAIN cache \cup {GenerateKey(last'.inputs)}) > 100)
        => \A k \in DOMAIN cache' : ~(now - cache'[k].timestamp > 5 * 60 * 1000)]_vars

\* C4 witness: more than 100 keys were inserted and the set of the last one
\* swept expired entries away.
C4_ExpiredSwept ==
    /\ last.op = "calculate" /\ ~last.hit
    /\ calls > 100
    /\ Cardinality(DOMAIN cache) < 100

\* C5: no get and no set (cleanup included) removes or changes an entry that
\* is within its TTL, but for set replacing the entry of its own key; so the
\* sets of N distinct keys within one TTL window leave N entries, also for
\* N > 100.
C5_NoLiveEviction ==
    [][CallStep
        => /\ \A k \in DOMAIN cache :
                now - cache[k].timestamp <= 5 * 60 * 1000
                    => /\ k \in DOMAIN cache'
                       /\ cache'[k] = cache[k] \/ k = GenerateKey(last'.inputs)
           /\ now' <= 5 * 60 * 1000 => Cardinality(DOMAIN cache') = calls']_vars

\* C5 witness: more than 100 live entries in the table.
C5_OverHundredLive ==
    /\ last.op = "calculate"
    /\ Cardinality(DOMAIN cache) > 100
    /\ \A k \in DOMAIN cache : now - cache[k].timestamp <= 5 * 60 * 1000

\* C6 as stated: a call whose systemSize, monthlyUsage or currentBill is
\* missing or is not a strictly positive number raises the validation error.
C6_NonPositiveRejected ==
    (/\ last.op = "calculate"
     /\ last.inputs.is = "object"
     /\ \E f \in {"systemSize", "monthlyUsage", "currentBill"} :
            ~PositiveNumber(last.inputs[f]))
        => (last.outcome.kind = "error"
                /\ last.outcome.error \in {NotPositiveMsg, NotSelectedMsg})

\* An option that is a non-empty string outside the values of its select box.
UnrecognizedOption(v, options) == v.t = "str" /\ v.s # "" /\ v.s \notin options

HasUnrecognizedOption(inputs) ==
    \/ UnrecognizedOption(inputs.installationType, InstallationTypes)
    \/ UnrecognizedOption(inputs.panelQuality, PanelQualities)
    \/ UnrecognizedOption(inputs.batteryStorage, BatteryOptions)

\* The input with every unrecognized option replaced by the baseline option.
WithBaselineOptions(inputs) ==
    [inputs EXCEPT
        !.installationType =
            IF UnrecognizedOption(@, InstallationTypes) THEN Str("Roof-Mount") ELSE @,
        !.panelQuality =
            IF UnrecognizedOption(@, PanelQualities) THEN Str("Standard Efficiency") ELSE @,
        !.batteryStorage =
            IF UnrecognizedOption(@, BatteryOptions) THEN Str("No Battery") ELSE @]

UnmatchedLocation(v) ==
    v.t # "str" \/ ToLowerCase(v.s) \notin
        {"vancouver", "victoria", "kelowna", "kamloops", "prince_george"}

UnrecognizedTier(v) == v.t = "str" /\ v.s # "" /\ v.s \notin RateTiers

\* C8 as stated: an unmatched or missing location uses irradiance 3.3, an
\* unrecognized non-empty rateTier uses the rate 0.1059, and the call of an
\* otherwise valid input returns a result whose fields are all numbers.
C8_SilentFallbacks ==
    (last.op = "calculate" /\ last.inputs.is = "object")
        => /\ UnmatchedLocation(last.inputs.location)
                => Irradiance(last.inputs.location) = Num(33)
           /\ UnrecognizedTier(last.inputs.rateTier)
                => EnergyRate(last.inputs.rateTier) = Num(1059)
           /\ (/\ UnmatchedLocation(last.inputs.location)
                    \/ UnrecognizedTier(last.inputs.rateTier)
               /\ last.inputs.location.t \in {"str", "undefined"}
               /\ ValidInput([last.inputs EXCEPT
                                !.rateTier = IF UnrecognizedTier(@)
                                             THEN Str("Medium General Service")
                                             ELSE @]))
                => /\ last.outcome.kind = "result"
                   /\ \A f \in ResultFields : last.outcome.result[f].t = "num"

\* C9 as stated: a call returns a result with all ten fields populated or
\* raises an error, and a call that raises an error adds or overwrites no
\* cache entry.
C9_ResultOrError ==
    [][CalculateStep
        => /\ \/ /\ last'.outcome.kind = "result"
                 /\ \A f \in ResultFields : last'.outcome.result[f] # Undefined
              \/ last'.outcome.kind = "error"
           /\ last'.outcome.kind = "error"
                => \A k \in DOMAIN cache' :
                        k \in DOMAIN cache /\ cache'[k] = cache[k]]_vars

\* C10 as stated: when the key derivation throws, the call still ends as the
\* direct computation of that input ends ('Invalid input data provided' for
\* a null input).
C10_FailOpen ==
    (last.op = "calculate" /\ KeyThrows(last.inputs))
        => last.outcome = Engine(last.inputs)

\* C11: for every positive systemSize s the result's cleanBcRebates is 0
\* when s < 20, min(500 s, 50000) when 20 <= s <= 100 and min(400 s, 125000)
\* when s > 100; at s = 100 it is 50000, and it never exceeds 125000.
C11_RebateTiers ==
    (last.op = "calculate" /\ last.outcome.kind = "result"
        /\ (PositiveNumber(last.inputs.systemSize) \/ last.inputs.systemSize = Infinity))
        => LET s == last.inputs.systemSize
               rebate == last.outcome.result.cleanBcRebates
           IN  /\ rebate.t = "num"
               /\ rebate.n <= 125000
               /\ s = Infinity => rebate.n = 125000
               /\ (s.t = "num" /\ s.n < 20) => rebate.n = 0
               /\ (s.t = "num" /\ s.n >= 20 /\ s.n <= 100)
                    => rebate.n = (IF 500 * s.n < 50000 THEN 500 * s.n ELSE 50000)
               /\ (s.t = "num" /\ s.n > 100)
                    => rebate.n = (IF 400 * s.n < 125000 THEN 400 * s.n ELSE 125000)
               /\ s = Num(100) => rebate.n = 50000

\* C11 witness: a call at exactly 100 kW was given the rebate of the lower
\* tier.
C11_LowerTierAt100 ==
    /\ last.op = "calculate"
    /\ last.inputs.systemSize = Num(100)
    /\ last.outcome.kind = "result"
    /\ last.outcome.result.cleanBcRebates = Num(50000)

\* Example scenario 1: 100 kW, Roof-Mount, Standard Efficiency, No Battery,
\* Medium General Service, a location that falls back to 3.3.
Scenario1(inputs) ==
    /\ inputs.is = "object"
    /\ inputs.systemSize = Num(100)
    /\ PositiveNumber(inputs.monthlyUsage)
    /\ PositiveNumber(inputs.currentBill)
    /\ inputs.rateTier = Str("Medium General Service")
    /\ inputs.installationType = Str("Roof-Mount")
    /\ inputs.panelQuality = Str("Standard Efficiency")
    /\ inputs.batteryStorage = Str("No Battery")
    /\ inputs.location.t \in {"str", "undefined", "null"}
    /\ Irradiance(inputs.location) = Num(33)

\* C12: in example scenario 1 the result has totalCost 175000,
\* cleanBcRebates 50000, federalIncentives 52500, netCost 72500 and
\* paybackPeriod 6.7.
C12_Scenario1Cost ==
    (last.op = "calculate" /\ Scenario1(last.inputs))
        => /\ last.outcome.kind = "result"
           /\ last.outcome.result.totalCost = Num(175000)
           /\ last.outcome.result.cleanBcRebates = Num(50000)
           /\ last.outcome.result.federalIncentives = Num(52500)
           /\ last.outcome.result.netCost = Num(72500)
           /\ last.outcome.result.paybackPeriod = Num(67)

\* C12 witness: a call of scenario 1 with a location outside the table.
C12_Scenario1Called ==
    /\ last.op = "calculate" /\ Scenario1(last.inputs)
    /\ last.inputs.location = Str("Prince George")
    /\ last.outcome.kind = "result"

\* C13 as stated: in example scenario 1 the result has annualProduction
\* 102424 and annualSavings 10847.
C13_Scenario1ProductionAsStated ==
    (last.op = "calculate" /\ Scenario1(last.inputs))
        => /\ last.outcome.kind = "result"
           /\ last.outcome.result.annualProduction = Num(102424)
           /\ last.outcome.result.annualSavings = Num(10847)

\* C13 amended: in example scenario 1 the result has annualProduction
\* 102383 (100 * 3.3 * 365 * 0.85 = 102382.5, rounded) and annualSavings
\* 10842 (102382.5 * 0.1059 = 10842.3, rounded).
C13_Scenario1Production ==
    (last.op = "calculate" /\ Scenario1(last.inputs))
        => /\ last.outcome.kind = "result"
           /\ last.outcome.result.annualProduction = Num(102383)
           /\ last.outcome.result.annualSavings = Num(10842)

\* C13 witness: a call of scenario 1 has returned the production of
\* 102383 kWh.
C13_Scenario1Produced ==
    /\ last.op = "calculate" /\ Scenario1(last.inputs)
    /\ last.outcome.kind = "result"
    /\ last.outcome.result.annualProduction = Num(102383)
    /\ last.outcome.result.co2OffsetAnnual = Num(430)

\* Example scenario 2: 500 kW, Tracker System, Premium Tier 1, 200kWh+.
Scenario2(inputs) ==
    /\ inputs.is = "object"
    /\ inputs.systemSize = Num(500)
    /\ PositiveNumber(inputs.monthlyUsage)
    /\ PositiveNumber(inputs.currentBill)
    /\ inputs.rateTier.t = "str" /\ inputs.rateTier.s \in RateTiers
    /\ inputs.installationType = Str("Tracker System")
    /\ inputs.panelQuality = Str("Premium Tier 1")
    /\ inputs.batteryStorage = Str("200kWh+ Custom Solution")
    /\ inputs.location.t \in {"str", "undefined", "null"}

\* C14: in example scenario 2 the efficiency is 0.85 * 1.15 * 1.25 (so
\* 847370 kWh a year at Kelowna's 3.8), the cost per kW is 3281.25,
\* totalCost is 1890625 and cleanBcRebates is 125000.
C14_Scenario2Stacking ==
    (last.op = "calculate" /\ Scenario2(last.inputs))
        => /\ last.outcome.kind = "result"
           /\ SystemEfficiencyE6(last.inputs) = 85 * 115 * 125
           /\ BaseCostPerKwCents(last.inputs) = 328125
           /\ last.inputs.location = Str("Kelowna")
                => last.outcome.result.annualProduction = Num(847370)
           /\ last.outcome.result.totalCost = Num(1890625)
           /\ last.outcome.result.cleanBcRebates = Num(125000)

\* C14 witness: a call of scenario 2 has returned its total cost.
C14_Scenario2Called ==
    /\ last.op = "calculate" /\ Scenario2(last.inputs)
    /\ last.outcome.kind = "result"
    /\ last.outcome.result.totalCost = Num(1890625)

\* Two input objects whose eight fields read alike.
SameFieldValues(a, b) ==
    /\ a.is = "object" /\ b.is = "object"
    /\ \A f \in Fields : a[f] = b[f]

\* C15: two inputs whose eight fields have identical values have the same
\* key, whatever the order of their properties and whatever extra
\* properties they carry: a call that follows a call which returned a
\* result for the one, while that entry is within its TTL, is a hit for the
\* other and returns the same result.
C15_OrderStableKey ==
    [][(/\ CallStep
        /\ last.op = "calculate" /\ last.outcome.kind = "result"
        /\ SameFieldValues(last.inputs, last'.inputs)
        /\ \E k \in DOMAIN cache :
                /\ cache[k].result = last.outcome.result
                /\ now - cache[k].timestamp <= 5 * 60 * 1000)
        => /\ last'.hit
           /\ last'.outcome = last.outcome]_vars

\* C15 witness: a hit for an object whose properties are in the reverse
\* order of those of the only object an entry of that key was stored for.
C15_ReorderedHit ==
    /\ last.op = "get" /\ last.hit
    /\ last.inputs = Reordered(Large)
    /\ last.outcome.result.totalCost = Num(1890625)

\* C16: when two callers interleave their lookup, computation and store for
\* equal valid inputs, no caller returns a wrong or an expired result, both
\* return equal results, and once both are done the table holds the entry
\* of that key with that result.
C16_BenignRace ==
    /\ \A c \in Callers :
            (callers[c].pc = "done" /\ ValidInput(callers[c].inputs))
                => /\ callers[c].outcome = EngineTable[callers[c].inputs]
                   /\ callers[c].hit => callers[c].age <= 5 * 60 * 1000
    /\ \A c, d \in Callers :
            (/\ c # d
             /\ callers[c].pc = "done" /\ callers[d].pc = "done"
             /\ ValidInput(callers[c].inputs)
             /\ SameFieldValues(callers[c].inputs, callers[d].inputs))
                => /\ callers[c].outcome = callers[d].outcome
                   /\ GenerateKey(callers[c].inputs) \in DOMAIN cache
                   /\ cache[GenerateKey(callers[c].inputs)].result
                        = callers[c].outcome.result
                   /\ Cardinality({k \in DOMAIN cache :
                            cache[k].result = callers[c].outcome.result}) = 1

\* C16 witness: both callers observed a miss for equal inputs (the clock
\* has not moved, so neither lookup followed the other's store), both
\* computed and stored, and both are done.
C16_BothMissed ==
    /\ now = 0
    /\ \A c \in Callers :
            /\ callers[c].pc = "done" /\ ~callers[c].hit
            /\ callers[c].inputs = Base
            /\ callers[c].outcome.kind = "result"
    /\ calls = 2

\* The place of a status in the order new, contacted, qualified, quoted,
\* closed.
StatusRank(status) == CHOOSE i \in DOMAIN LeadStatuses : LeadStatuses[i] = status

\* C17 as stated: after any sequence of POST /api/leads and PATCH
\* /api/leads/:id/status requests every lead's status is one of new,
\* contacted, qualified, quoted, closed, and a status change only moves a
\* lead forward along that order.
C17_StatusProgression ==
    [][\A i \in DOMAIN leads' :
        /\ \E k \in DOMAIN LeadStatuses : LeadStatuses[k] = leads'[i].status
        /\ (i \in DOMAIN leads
                /\ \E k \in DOMAIN LeadStatuses : LeadStatuses[k] = leads[i].status)
            => StatusRank(leads'[i].status) >= StatusRank(leads[i].status)]_vars

\* C18 as stated: every lead stored by POST /api/leads has a leadScore
\* between 0 and 100 inclusive.
C18_ScoreRange ==
    \A i \in DOMAIN leads :
        /\ leads[i].leadScore.t = "num"
        /\ leads[i].leadScore.n >= 0
        /\ leads[i].leadScore.n <= 100

\* The factors of the production and cost formulas, in percent.
PanelFactor(v, high, premium) ==
    IF v = Str("High Efficiency") THEN high
    ELSE IF v = Str("Premium Tier 1") THEN premium ELSE 100

InstallFactor(v, ground, carport, tracker) ==
    IF v = Str("Ground-Mount") THEN ground
    ELSE IF v = Str("Carport/Canopy") THEN carport
    ELSE IF v = Str("Tracker System") THEN tracker ELSE 100

\* A call that returned a result for a finite system size.
FiniteResult ==
    /\ last.op = "calculate" /\ last.outcome.kind = "result"
    /\ last.inputs.systemSize.t = "num"

\* C19: annualProduction is systemSize * (irradiance * 365) * efficiency,
\* rounded, with efficiency 0.85 times the panel factor (1.10, 1.15, else 1)
\* times the installation factor (1.05 Ground-Mount, 1.25 Tracker System,
\* else 1), the factors taken in either order; Carport/Canopy produces what
\* Roof-Mount produces, at another cost.
C19_ProductionFormula ==
    (FiniteResult /\ Irradiance(last.inputs.location).t = "num")
        => LET panel == PanelFactor(last.inputs.panelQuality, 110, 115)
               install == InstallFactor(last.inputs.installationType, 105, 100, 125)
               irradiance == Irradiance(last.inputs.location).n
               Production(efficiencyE6) ==
                    BigRoundDivE7(BigMulSmall(BigMulSmall(BigMulSmall(
                        BigFromInt(efficiencyE6), last.inputs.systemSize.n),
                        irradiance), 365))
               roof == [last.inputs EXCEPT !.installationType = Str("Roof-Mount")]
           IN  /\ last.outcome.result.annualProduction = Num(Production((85 * panel) * install))
               /\ last.outcome.result.annualProduction = Num(Production((85 * install) * panel))
               /\ (last.inputs.installationType = Str("Carport/Canopy")
                        /\ roof \in DOMAIN EngineTable)
                    => /\ EngineTable[roof].result.annualProduction
                            = last.outcome.result.annualProduction
                       /\ EngineTable[roof].result.totalCost
                            # last.outcome.result.totalCost

\* C19 witness: a call with both efficiency adjustments, 100 kW at 3.3 with
\* High Efficiency panels on a tracker: 102382.5 * 1.10 * 1.25 = 140775.9.
C19_BothAdjustments ==
    /\ FiniteResult
    /\ last.inputs.panelQuality = Str("High Efficiency")
    /\ last.inputs.installationType = Str("Tracker System")
    /\ last.outcome.result.annualProduction = Num(140776)

\* C20: totalCost is systemSize * 1750 * installation multiplier (1.10,
\* 1.30, 1.50, else 1) * panel multiplier (1.15, 1.25, else 1), plus the
\* battery addend 0, 75000, 140000 or 250000, rounded; the addend does not
\* depend on systemSize and is not multiplied by either factor.
C20_CostFormula ==
    FiniteResult
        => LET panel == PanelFactor(last.inputs.panelQuality, 115, 125)
               install == InstallFactor(last.inputs.installationType, 110, 130, 150)
               battery ==
                    IF last.inputs.batteryStorage = Str("50kWh Commercial Battery") THEN 75000
                    ELSE IF last.inputs.batteryStorage = Str("100kWh Commercial Battery") THEN 140000
                    ELSE IF last.inputs.batteryStorage = Str("200kWh+ Custom Solution") THEN 250000
                    ELSE 0
               \* systemSize * 1750 * install * panel, in 1/10000 CAD, as
               \* whole CAD and a remainder
               perKwE4 == 1750 * install * panel
               whole == last.inputs.systemSize.n * (perKwE4 \div 10000)
               part == last.inputs.systemSize.n * (perKwE4 % 10000)
               noBattery == [last.inputs EXCEPT !.batteryStorage = Str("No Battery")]
           IN  /\ last.outcome.result.totalCost
                    = Num(whole + battery + RoundDiv(part, 10000))
               /\ noBattery \in DOMAIN EngineTable
                    => last.outcome.result.totalCost.n
                            - EngineTable[noBattery].result.totalCost.n = battery

\* C20 witness: a call with a battery, a cost multiplier of each kind and a
\* system size other than that of the examples: 20 * 1750 * 1.30 + 140000.
C20_BatteryAdded ==
    /\ FiniteResult
    /\ last.inputs.systemSize = Num(20)
    /\ last.inputs.installationType = Str("Carport/Canopy")
    /\ last.inputs.batteryStorage = Str("100kWh Commercial Battery")
    /\ last.outcome.result.totalCost = Num(185500)

\* The rebate as a function of the system size alone.
RebateOfSize(size) ==
    IF size < 20 THEN 0
    ELSE IF size <= 100 THEN (IF 500 * size < 50000 THEN 500 * size ELSE 50000)
    ELSE (IF 400 * size < 125000 THEN 400 * size ELSE 125000)

NonFiniteOperands(inputs) ==
    /\ inputs.is = "object"
    /\ ~LessEqZero(inputs.systemSize) /\ ~LessEqZero(inputs.monthlyUsage)
    /\ ~LessEqZero(inputs.currentBill)
    /\ ~Falsy(inputs.rateTier) /\ ~Falsy(inputs.installationType)
    /\ ~Falsy(inputs.panelQuality) /\ ~Falsy(inputs.batteryStorage)
    /\ inputs.location.t \in {"str", "undefined", "null"}
    /\ \/ inputs.systemSize.t # "num"
       \/ EnergyRate(inputs.rateTier).t # "num"
       \/ Irradiance(inputs.location).t # "num"

C23_EntryLifecycle ==
    [][(CalculateStep /\ ~KeyThrows(last'.inputs))
        => LET key == GenerateKey(last'.inputs)
               present == key \in DOMAIN cache
           IN  /\ last'.hit => cache' = cache
               /\ \A k \in DOMAIN cache' :
                    (k \notin DOMAIN cache \/ cache'[k] # cache[k])
                        => /\ k = key
                           /\ ~last'.hit
                           /\ cache'[k].timestamp = now
                           /\ cache'[k].result = last'.outcome.result
               /\ (present /\ now - cache[key].timestamp <= 5 * 60 * 1000)
                    => last'.hit
               /\ (present /\ now - cache[key].timestamp > 5 * 60 * 1000)
                    => /\ ~last'.hit
                       /\ last'.outcome.kind = "result"
                            => /\ key \in DOMAIN cache'
                               /\ cache'[key].timestamp = now]_vars

\* C23 witness: a call after the expiry of the entry of its key has
\* recomputed and overwritten it.
C23_Overwritten ==
    /\ last.op = "calculate" /\ last.evicted /\ ~last.hit
    /\ last.outcome.kind = "result"
    /\ GenerateKey(last.inputs) \in DOMAIN cache
    /\ cache[GenerateKey(last.inputs)].timestamp = now
    /\ now > 5 * 60 * 1000

\* C24 as stated: when the Gemini analysis or qualification fails, POST
\* /api/leads stores the lead and answers success, and the stored leadScore
\* is the rule-based score of the route: 50, plus 20 for a bill above 1000,
\* 10 above 2000, 15 for a roofArea above 10000, 20 for 'Within 3 months'
\* or 10 for '3-6 months', 15 for 'Cost savings', 10 for Manufacturing or
\* Warehouse, at most 100.
C24_RuleBasedOnFailure ==
    (/\ response.request.route = "POST /api/leads"
     /\ response.request.body \in LeadBodies \ {InvalidBody}
     /\ "fails" \in {response.request.analysis, response.request.qualification})
        => LET body == response.request.body
               score == 50 + (IF body.monthlyElectricityBill > 1000 THEN 20 ELSE 0)
                           + (IF body.monthlyElectricityBill > 2000 THEN 10 ELSE 0)
                           + (IF body.roofArea > 10000 THEN 15 ELSE 0)
                           + (IF body.timeframe = "Within 3 months" THEN 20 ELSE 0)
                           + (IF body.timeframe = "3-6 months" THEN 10 ELSE 0)
                           + (IF body.primaryGoal = "Cost savings" THEN 15 ELSE 0)
                           + (IF body.businessType \in {"Manufacturing", "Warehouse"}
                              THEN 10 ELSE 0)
           IN  /\ response.code = 200
               /\ response.message = "Lead submitted successfully"
               /\ leads # <<>>
               /\ leads[Len(leads)].leadScore
                    = Num(IF score < 100 THEN score ELSE 100)

\* The input passes the validation of calculateCommercialSolar: computed
\* without the cache, the call returns a result.
Accepted(inputs) == EngineTable[inputs].kind = "result"

\* C25 as stated: two inputs that both pass the validation and differ in one
\* of the eight fields have different cache keys, so a call with an input
\* that passes the validation never returns a result cached for another
\* input: what a hit returns is what the input itself computes to.
C25_KeysInjective ==
    [][/\ \A a, b \in CollideInputs :
            (Accepted(a) /\ Accepted(b) /\ a # b) => GenerateKey(a) # GenerateKey(b)
       /\ (CalculateStep /\ Accepted(last'.inputs) /\ last'.hit)
            => last'.outcome = EngineTable[last'.inputs]]_vars

\* C26 as stated: an input that fails the validation raises the validation
\* error in every cache state, and is never answered with a cached result.
C26_RejectedInEveryState ==
    [][(CalculateStep /\ ~KeyThrows(last'.inputs) /\ ~Accepted(last'.inputs))
        => /\ ~last'.hit
           /\ last'.outcome = EngineTable[last'.inputs]
           /\ last'.outcome.kind = "error"]_vars

\* The options of the input are the ones the calculator knows.
RecognizedOptions(inputs) ==
    /\ inputs.rateTier.t = "str" /\ inputs.rateTier.s \in RateTiers
    /\ inputs.installationType.t = "str" /\ inputs.installationType.s \in InstallationTypes
    /\ inputs.panelQuality.t = "str" /\ inputs.panelQuality.s \in PanelQualities
    /\ inputs.batteryStorage.t = "str" /\ inputs.batteryStorage.s \in BatteryOptions

\* C27 as stated: for every input with a finite positive systemSize and
\* recognized options, the rebate and the 30 percent incentive together stay
\* below the total cost, paybackPeriod is finite and strictly positive and
\* roi25Year is finite.
C27_PaybackDefined ==
    (/\ last.op = "calculate" /\ last.outcome.kind = "result"
     /\ PositiveNumber(last.inputs.systemSize) \/ last.inputs.systemSize = Huge
     /\ RecognizedOptions(last.inputs))
        => /\ last.inputs.systemSize.t = "num"
                => 1000 * CleanBcRebates(last.inputs.systemSize.n)
                     + FederalIncentivesE3(last.inputs) < 10 * TotalCostCents(last.inputs)
           /\ last.outcome.result.paybackPeriod.t = "num"
           /\ last.outcome.result.paybackPeriod.n > 0
           /\ last.outcome.result.roi25Year.t = "num"

\* C28 as stated: in every returned result, netCost differs from totalCost
\* minus cleanBcRebates minus federalIncentives by at most 1, and equals it
\* when totalCost is a whole number and federalIncentives has no fractional
\* part.
C28_FiguresAddUp ==
    (last.op = "calculate" /\ last.outcome.kind = "result")
        => LET r == last.outcome.result
               sum == r.totalCost.n - r.cleanBcRebates.n - r.federalIncentives.n
           IN  /\ \A f \in {"totalCost", "cleanBcRebates", "federalIncentives", "netCost"} :
                    r[f].t = "num"
               /\ r.netCost.n - sum \in {-1, 0, 1}
               /\ (/\ TotalCostCents(last.inputs) % 100 = 0
                   /\ FederalIncentivesE3(last.inputs) % 1000 = 0)
                     => r.netCost.n = sum

\* The two inputs are equal but for monthlyUsage and currentBill.
SameButUsageAndBill(a, b) ==
    \A f \in DOMAIN a : f \notin {"monthlyUsage", "currentBill"} => a[f] = b[f]

\* C29: a call with a valid input that follows a call with a valid input
\* differing from it only in monthlyUsage or currentBill returns a result
\* equal to the one of that call, and the two inputs have distinct keys and
\* occupy two entries of the table: the second call misses unless its own
\* entry is there, and adds an entry next to the first one.
C29_UsageAndBillIgnored ==
    [][(/\ CalculateStep
        /\ last.op = "calculate"
        /\ ValidInput(last.inputs) /\ ValidInput(last'.inputs)
        /\ last'.inputs # last.inputs
        /\ SameButUsageAndBill(last.inputs, last'.inputs))
        => LET first == GenerateKey(last.inputs)
               second == GenerateKey(last'.inputs)
           IN  /\ last'.outcome.kind = "result"
               /\ last'.outcome.result = last.outcome.result
               /\ first # second
               /\ {first, second} \subseteq DOMAIN cache'
               /\ cache'[first] = cache[first]
               /\ second \notin DOMAIN cache
                    => /\ ~last'.hit
                       /\ Cardinality(DOMAIN cache') = Cardinality(DOMAIN cache) + 1]_vars

C29_TwoEntries ==
    /\ last.op = "calculate" /\ ~last.hit
    /\ last.inputs = [Base EXCEPT !.monthlyUsage = Num(8000)]
    /\ {GenerateKey(Base), GenerateKey(last.inputs)} \subseteq DOMAIN cache
    /\ GenerateKey(Base) # GenerateKey(last.inputs)
    /\ cache[GenerateKey(Base)].timestamp < cache[GenerateKey(last.inputs)].timestamp
    /\ cache[GenerateKey(Base)].result = last.outcome.result
    /\ last.outcome.result.annualSavings = Num(10842)

\* C30 as stated: the rebate is non-decreasing in the system size over the
\* whole range, the boundary at 100 kW included: no smaller size has a
\* higher rebate than the size of the call.
C30_RebateMonotone ==
    (FiniteResult /\ last.inputs.systemSize.n > 0)
        => \A a \in TierSizes :
             a <= last.inputs.systemSize.n
                => /\ CleanBcRebates(a) <= last.outcome.result.cleanBcRebates.n
                   /\ ServerCleanBcRebates(a)
                        <= ServerCleanBcRebates(last.inputs.systemSize.n)

\* C30, amended: the rebate is non-decreasing over the sizes up to 100 kW
\* and over the sizes above 100 kW, but not across the boundary: above 100
\* and below 125 kW it is lower than the 50000 of a 100 kW system (40400 at
\* 101 kW), and from 125 kW on it is at least 50000 again.  The same holds
\* of the server's calculateSolarSystem.
C30_RebateMonotonePerTier ==
    (FiniteResult /\ last.inputs.systemSize.n > 0)
        => LET b == last.inputs.systemSize.n
               rebate == last.outcome.result.cleanBcRebates.n
           IN  /\ \A a \in TierSizes :
                    (a <= b /\ (b <= 100 \/ a > 100 \/ b >= 125))
                        => /\ CleanBcRebates(a) <= rebate
                           /\ ServerCleanBcRebates(a) <= ServerCleanBcRebates(b)
               /\ (b > 100 /\ b < 125)
                    => /\ rebate < CleanBcRebates(100)
                       /\ rebate = b * 400
                       /\ ServerCleanBcRebates(b) < ServerCleanBcRebates(100)
               /\ b >= 125 => rebate >= CleanBcRebates(100)

C30_DropAt101 ==
    /\ FiniteResult
    /\ last.inputs.systemSize = Num(101)
    /\ last.outcome.result.cleanBcRebates = Num(40400)
    /\ EngineTable[[last.inputs EXCEPT !.systemSize = Num(100)]].result.cleanBcRebates
         = Num(50000)

====
